---- MODULE Spec2Model ----
(***************************************************************************)
(* Model of movie-collection-manager.py: the MovieCollection store (load,  *)
(* validate, save with backup) and the operations that mutate it.          *)
(*                                                                         *)
(* Text is a sequence of code points.  A Python value is a tagged record.  *)
(* The content of a file is the sequence of JSON tokens of its text.       *)
(***************************************************************************)
EXTENDS Integers, Sequences, FiniteSets, TLC

VARIABLES
    movies,     \* self.movies: a sequence of Python values
    file,       \* the storage file self.filename
    bak,        \* the backup file self.filename.with_suffix('.json.bak')
    pc,         \* position of the process: idle (in the menu), backup/open/write
                \* (inside save_collection), exited
    ret,        \* what save_collection returned in the current operation
    op,         \* the operation in progress or last completed
    sv,         \* the save_collection call in progress or last completed
    saveLog     \* the two most recent completed save_collection calls

vars == <<movies, file, bak, pc, ret, op, sv, saveLog>>

----------------------------------------------------------------------------
(* Bounds of the model *)

MaxMovies == 2
MaxCut == 2
MaxItems == 3
SortLen == 3

(* Class constants, lines 22-27 *)
MIN_RATING == 1
MAX_RATING == 10
FIRST_FILM_YEAR == 1888
current_year == 2026

----------------------------------------------------------------------------
(* Text *)

S_title == <<116, 105, 116, 108, 101>>
S_genre == <<103, 101, 110, 114, 101>>
S_year == <<121, 101, 97, 114>>
S_rating == <<114, 97, 116, 105, 110, 103>>
S_director == <<100, 105, 114, 101, 99, 116, 111, 114>>
S_review == <<114, 101, 118, 105, 101, 119>>
S_added_date == <<97, 100, 100, 101, 100, 95, 100, 97, 116, 101>>
S_Unknown == <<85, 110, 107, 110, 111, 119, 110>>
S_back == <<98, 97, 99, 107>>

REQUIRED_FIELDS ==
    <<S_title, S_genre, S_year, S_rating, S_director, S_review, S_added_date>>

\* str.lower(), on ASCII
lower(s) == [i \in 1..Len(s) |-> IF s[i] \in 65..90 THEN s[i] + 32 ELSE s[i]]

IsSpace(c) == c \in {32, 9, 10, 13}

\* str.strip()
RECURSIVE lstrip(_)
lstrip(s) == IF s # <<>> /\ IsSpace(Head(s)) THEN lstrip(Tail(s)) ELSE s

RECURSIVE rstrip(_)
rstrip(s) ==
    IF s # <<>> /\ IsSpace(s[Len(s)]) THEN rstrip(SubSeq(s, 1, Len(s) - 1)) ELSE s

strip(s) == rstrip(lstrip(s))

\* str.isdigit(): non-empty and every character a digit.  Code point 178
\* (superscript two) is a digit for isdigit() but not a decimal for int().
isdigit(s) == s # <<>> /\ \A i \in 1..Len(s) : s[i] \in (48..57) \cup {178}

IsDecimal(s) == s # <<>> /\ \A i \in 1..Len(s) : s[i] \in 48..57

RECURSIVE DecimalValue(_)
DecimalValue(s) ==
    IF s = <<>> THEN 0
    ELSE 10 * DecimalValue(SubSeq(s, 1, Len(s) - 1)) + (s[Len(s)] - 48)

\* int(text): the text is stripped, an optional sign, then decimal digits.
\* ok = FALSE stands for ValueError.
int(text) ==
    LET s == strip(text)
        signed == s # <<>> /\ Head(s) \in {43, 45}
        digits == IF signed THEN Tail(s) ELSE s
    IN  IF IsDecimal(digits)
        THEN [ok |-> TRUE,
              n |-> IF signed /\ Head(s) = 45 THEN 0 - DecimalValue(digits)
                    ELSE DecimalValue(digits)]
        ELSE [ok |-> FALSE, n |-> 0]

\* sub in s, for two strings
Contains(s, sub) ==
    \E i \in 0..(Len(s) - Len(sub)) : SubSeq(s, i + 1, i + Len(sub)) = sub

\* s < t for two strings (by code point)
RECURSIVE StrLess(_, _)
StrLess(s, t) ==
    IF t = <<>> THEN FALSE
    ELSE IF s = <<>> THEN TRUE
    ELSE IF Head(s) # Head(t) THEN Head(s) < Head(t)
    ELSE StrLess(Tail(s), Tail(t))

----------------------------------------------------------------------------
(* Python values *)

PyInt(n) == [t |-> "int", n |-> n, s |-> <<>>, kv |-> <<>>, items |-> <<>>]
PyStr(s) == [t |-> "str", n |-> 0, s |-> s, kv |-> <<>>, items |-> <<>>]
PyNone == [t |-> "none", n |-> 0, s |-> <<>>, kv |-> <<>>, items |-> <<>>]
\* a dict: its (key, value) pairs in insertion order, keys are strings
PyDict(kv) == [t |-> "dict", n |-> 0, s |-> <<>>, kv |-> kv, items |-> <<>>]
PyList(items) == [t |-> "list", n |-> 0, s |-> <<>>, kv |-> <<>>, items |-> items]

HasKey(d, k) == \E i \in 1..Len(d.kv) : d.kv[i][1] = k

\* d[k]
Get(d, k) == d.kv[CHOOSE i \in 1..Len(d.kv) : d.kv[i][1] = k][2]

\* d[k] = v
Put(d, k, v) ==
    IF HasKey(d, k)
    THEN PyDict([i \in 1..Len(d.kv) |->
                    IF d.kv[i][1] = k THEN <<k, v>> ELSE d.kv[i]])
    ELSE PyDict(Append(d.kv, <<k, v>>))

----------------------------------------------------------------------------
(* JSON text: json.dump and json.load *)

Tok(k, s, n) == [k |-> k, s |-> s, n |-> n]
T(k) == Tok(k, <<>>, 0)

RECURSIVE dumps(_)
RECURSIVE DumpItems(_)
RECURSIVE DumpMembers(_)

DumpItems(items) ==
    IF items = <<>> THEN <<>>
    ELSE dumps(Head(items))
         \o (IF Len(items) > 1 THEN <<T(",")>> ELSE <<>>)
         \o DumpItems(Tail(items))

DumpMembers(kv) ==
    IF kv = <<>> THEN <<>>
    ELSE <<Tok("str", Head(kv)[1], 0), T(":")>> \o dumps(Head(kv)[2])
         \o (IF Len(kv) > 1 THEN <<T(",")>> ELSE <<>>)
         \o DumpMembers(Tail(kv))

\* the text json.dump writes for a value
dumps(v) ==
    CASE v.t = "int" -> <<Tok("int", <<>>, v.n)>>
      [] v.t = "str" -> <<Tok("str", v.s, 0)>>
      [] v.t = "none" -> <<T("null")>>
      [] v.t = "list" -> <<T("[")>> \o DumpItems(v.items) \o <<T("]")>>
      [] v.t = "dict" -> <<T("{")>> \o DumpMembers(v.kv) \o <<T("}")>>

ParseFail == [ok |-> FALSE, val |-> PyNone, rest |-> <<>>]
ParseOk(v, rest) == [ok |-> TRUE, val |-> v, rest |-> rest]

RECURSIVE ParseValue(_)
RECURSIVE ParseItems(_, _)
RECURSIVE ParseMembers(_, _)

ParseItems(ts, acc) ==
    LET p == ParseValue(ts) IN
    IF ~p.ok \/ p.rest = <<>> THEN ParseFail
    ELSE IF Head(p.rest).k = "," THEN ParseItems(Tail(p.rest), Append(acc, p.val))
    ELSE IF Head(p.rest).k = "]" THEN ParseOk(PyList(Append(acc, p.val)), Tail(p.rest))
    ELSE ParseFail

ParseMembers(ts, acc) ==
    IF Len(ts) < 2 \/ ts[1].k # "str" \/ ts[2].k # ":" THEN ParseFail
    ELSE LET p == ParseValue(SubSeq(ts, 3, Len(ts)))
             d == Put(acc, ts[1].s, p.val)
         IN  IF ~p.ok \/ p.rest = <<>> THEN ParseFail
             ELSE IF Head(p.rest).k = "," THEN ParseMembers(Tail(p.rest), d)
             ELSE IF Head(p.rest).k = "}" THEN ParseOk(d, Tail(p.rest))
             ELSE ParseFail

ParseValue(ts) ==
    IF ts = <<>> THEN ParseFail
    ELSE LET h == Head(ts)
             r == Tail(ts)
         IN  CASE h.k = "int" -> ParseOk(PyInt(h.n), r)
               [] h.k = "str" -> ParseOk(PyStr(h.s), r)
               [] h.k = "null" -> ParseOk(PyNone, r)
               [] h.k = "[" ->
                    IF r # <<>> /\ Head(r).k = "]" THEN ParseOk(PyList(<<>>), Tail(r))
                    ELSE ParseItems(r, <<>>)
               [] h.k = "{" ->
                    IF r # <<>> /\ Head(r).k = "}" THEN ParseOk(PyDict(<<>>), Tail(r))
                    ELSE ParseMembers(r, PyDict(<<>>))
               [] OTHER -> ParseFail

\* json.loads of a decoded text: ok = FALSE stands for json.JSONDecodeError
loads(ts) ==
    LET p == ParseValue(ts) IN
    IF p.ok /\ p.rest = <<>> THEN p ELSE ParseFail

\* the text holds a byte that is not UTF-8
Undecodable(ts) == \E i \in 1..Len(ts) : ts[i].k = "bad"

----------------------------------------------------------------------------
(* Files *)

Absent == [exists |-> FALSE, data |-> <<>>]
FileOf(ts) == [exists |-> TRUE, data |-> ts]

----------------------------------------------------------------------------
(* load_collection and _validate_movie_data *)

\* `field in movie`: "TypeError" when movie supports no membership test
FieldIn(field, movie) ==
    CASE movie.t = "dict" -> IF HasKey(movie, field) THEN "true" ELSE "false"
      [] movie.t = "str" -> IF Contains(movie.s, field) THEN "true" ELSE "false"
      [] movie.t = "list" ->
            IF \E i \in 1..Len(movie.items) : movie.items[i] = PyStr(field)
            THEN "true" ELSE "false"
      [] OTHER -> "TypeError"

\* all(field in movie for field in REQUIRED_FIELDS): stops at the first
\* field that is not in movie
RECURSIVE AllFieldsIn(_, _)

\* mutant: any() in place of all()
AnyFieldIn(fields, movie) ==
    IF \E i \in 1..Len(fields) : FieldIn(fields[i], movie) = "TypeError"
    THEN "TypeError"
    ELSE IF \E i \in 1..Len(fields) : FieldIn(fields[i], movie) = "true"
    THEN "true" ELSE "false"

AllFieldsIn(fields, movie) ==
    IF fields = <<>> THEN "true"
    ELSE LET r == FieldIn(Head(fields), movie) IN
         IF r = "true" THEN AllFieldsIn(Tail(fields), movie) ELSE r

_validate_movie_data(movie) == AllFieldsIn(REQUIRED_FIELDS, movie)

\* `for m in movies`: the elements a value yields when iterated
Iterable(v) == v.t \in {"list", "dict", "str"}
Iterate(v) ==
    CASE v.t = "list" -> v.items
      [] v.t = "dict" -> [i \in 1..Len(v.kv) |-> PyStr(v.kv[i][1])]
      [] v.t = "str" -> [i \in 1..Len(v.s) |-> PyStr(<<v.s[i]>>)]
      [] OTHER -> <<>>

Returned(list) == [raised |-> "none", val |-> list]
Raised(e) == [raised |-> e, val |-> <<>>]

load_collection(f) ==
    IF ~f.exists THEN Returned(<<>>)
    ELSE IF Undecodable(f.data) THEN Raised("UnicodeDecodeError")
    ELSE LET p == loads(f.data) IN
         IF ~p.ok THEN Returned(<<>>)
         ELSE IF ~Iterable(p.val) THEN Raised("TypeError")
         ELSE LET ms == Iterate(p.val) IN
              IF \E i \in 1..Len(ms) : _validate_movie_data(ms[i]) = "TypeError"
              THEN Raised("TypeError")
              ELSE Returned(SelectSeq(ms, LAMBDA m : _validate_movie_data(m) = "true"))

----------------------------------------------------------------------------
(* Input validation, lines 93-200 *)

NoValue == [ok |-> FALSE, val |-> PyNone]
Value(v) == [ok |-> TRUE, val |-> v]

\* mutant: the titles are compared as typed, not ignoring case
validate_title_case_sensitive(title, ms) ==
    IF title = <<>> THEN NoValue
    ELSE IF \E i \in 1..Len(ms) : Get(ms[i], S_title).s = title
    THEN NoValue
    ELSE Value(PyStr(title))

validate_title(title, ms) ==
    IF title = <<>> THEN NoValue
    ELSE IF \E i \in 1..Len(ms) : lower(Get(ms[i], S_title).s) = lower(title)
    THEN NoValue
    ELSE Value(PyStr(title))

\* a ValueError of int() is caught by _get_validated_input: no value
validate_year(year_str) ==
    IF ~isdigit(year_str) \/ ~int(year_str).ok THEN NoValue
    ELSE IF FIRST_FILM_YEAR <= int(year_str).n /\ int(year_str).n <= current_year
    THEN Value(PyInt(int(year_str).n))
    ELSE NoValue

validate_rating(rating_str) ==
    IF ~int(rating_str).ok THEN NoValue
    ELSE IF MIN_RATING <= int(rating_str).n /\ int(rating_str).n <= MAX_RATING
    THEN Value(PyInt(int(rating_str).n))
    ELSE NoValue

\* The prompt loop over the texts the user types, in order; results[i] is
\* what the validator gives for the i-th text, stripped.  st = "value": the
\* first text the validator accepts; st = "back": the user typed back first;
\* st = "waiting": the loop is still prompting.  at: which text ended it.
_get_validated_input(inputs, results, allow_back) ==
    LET isBack(i) == allow_back /\ lower(strip(inputs[i])) = S_back
        ends(i) == isBack(i) \/ results[i].ok
    IN  IF \E i \in 1..Len(inputs) : ends(i)
        THEN LET i == CHOOSE j \in 1..Len(inputs) :
                        ends(j) /\ \A h \in 1..(j - 1) : ~ends(h)
             IN  IF isBack(i) THEN [st |-> "back", val |-> PyNone, at |-> i]
                 ELSE [st |-> "value", val |-> results[i].val, at |-> i]
        ELSE [st |-> "waiting", val |-> PyNone, at |-> 0]

_get_validated_title(inputs, ms) ==
    _get_validated_input(inputs,
        [i \in 1..Len(inputs) |-> validate_title(strip(inputs[i]), ms)], TRUE)

_get_validated_year(inputs) ==
    _get_validated_input(inputs,
        [i \in 1..Len(inputs) |-> validate_year(strip(inputs[i]))], FALSE)

_get_validated_rating(inputs) ==
    _get_validated_input(inputs,
        [i \in 1..Len(inputs) |-> validate_rating(strip(inputs[i]))], FALSE)

\* `text.strip() or default`
OrDefault(text, default) == IF strip(text) = <<>> THEN default ELSE strip(text)

----------------------------------------------------------------------------
(* list.sort(key=lambda x: x[sort_key], reverse=reverse), line 292 *)

\* a < b for two keys of the same type
KeyLess(a, b) == IF a.t = "int" THEN a.n < b.n ELSE StrLess(a.s, b.s)

\* x goes before y when x's key is strictly ahead of y's in the direction
GoesBefore(x, y, key, reverse) ==
    IF reverse THEN KeyLess(Get(y, key), Get(x, key))
    ELSE KeyLess(Get(x, key), Get(y, key))

\* mutant: x is placed ahead of the elements with an equal key
InsertUnstable(sorted, x, key, reverse) ==
    LET ahead == SelectSeq(sorted, LAMBDA y : ~GoesBefore(x, y, key, reverse)
                                              /\ GoesBefore(y, x, key, reverse))
        behind == SelectSeq(sorted, LAMBDA y : ~GoesBefore(y, x, key, reverse))
    IN  ahead \o <<x>> \o behind

\* x is placed after every element that does not go after it
InsertStable(sorted, x, key, reverse) ==
    LET ahead == SelectSeq(sorted, LAMBDA y : ~GoesBefore(x, y, key, reverse))
        behind == SelectSeq(sorted, LAMBDA y : GoesBefore(x, y, key, reverse))
    IN  ahead \o <<x>> \o behind

RECURSIVE SortInto(_, _, _, _)
SortInto(sorted, rest, key, reverse) ==
    IF rest = <<>> THEN sorted
    ELSE SortInto(InsertStable(sorted, Head(rest), key, reverse),
                  Tail(rest), key, reverse)

sort(ms, key, reverse) == SortInto(<<>>, ms, key, reverse)

\* sort_options, lines 280-288: choice text '1'..'7'
IsSortChoice(choice) == Len(choice) = 1 /\ choice[1] \in 49..55

sort_options(choice) ==
    CASE choice = <<49>> -> [key |-> S_title, reverse |-> FALSE]
      [] choice = <<50>> -> [key |-> S_title, reverse |-> TRUE]
      [] choice = <<51>> -> [key |-> S_year, reverse |-> FALSE]
      [] choice = <<52>> -> [key |-> S_year, reverse |-> TRUE]
      [] choice = <<53>> -> [key |-> S_rating, reverse |-> FALSE]
      [] choice = <<54>> -> [key |-> S_rating, reverse |-> TRUE]
      [] choice = <<55>> -> [key |-> S_genre, reverse |-> FALSE]

----------------------------------------------------------------------------
(* The operation record and the save_collection call record *)

\* name: the operation; outcome: how it ended; pos: the movie number it
\* acted on; arg: the text typed for the choice; tries: how many texts the
\* title prompt consumed
Op(name, outcome, pos, arg, tries) ==
    [name |-> name, outcome |-> outcome, pos |-> pos, arg |-> arg, tries |-> tries]

NoSaveCall ==
    [called |-> FALSE, m0 |-> <<>>, pre |-> Absent, fail |-> "none", at |-> "none"]

\* the last two entries of the log with one more
Logged(log, entry) ==
    IF Len(log) < 2 THEN Append(log, entry) ELSE <<log[2], entry>>

\* the handler returns without calling save_collection, self.movies = ms
NoSave(ms) ==
    /\ movies' = ms
    /\ pc' = "idle"
    /\ ret' = "none"
    /\ sv' = NoSaveCall
    /\ UNCHANGED <<file, bak, saveLog>>

\* mutant: the handler forgets to call save_collection
CallSaveForgotten(ms) == NoSave(ms)

\* the handler goes on into save_collection with self.movies = ms
CallSave(ms) ==
    /\ movies' = ms
    /\ pc' = "backup"
    /\ ret' = "none"
    /\ sv' = [called |-> TRUE, m0 |-> ms, pre |-> file, fail |-> "none",
              at |-> "none"]
    /\ UNCHANGED <<file, bak, saveLog>>

----------------------------------------------------------------------------
(* save_collection, lines 74-91, step by step *)

RECURSIVE SavedTextLines(_)
\* mutant: each record is dumped on its own, with no enclosing list
SavedTextLines(ms) ==
    IF ms = <<>> THEN <<>> ELSE dumps(Head(ms)) \o SavedTextLines(Tail(ms))

\* json.dump(self.movies, f, ...): the text written for the list
SavedText(ms) == dumps(PyList(ms))

\* where a write that fails or is interrupted may stop
CutPoints(text) ==
    {k \in 0..(Len(text) - 1) : k <= MaxCut \/ k = Len(text) - 1}

\* mutant: a failed save puts self.movies back to what the file held
ReturnFalseRollback(stage) ==
    /\ pc' = "idle"
    /\ ret' = "false"
    /\ sv' = [sv EXCEPT !.fail = "IOError", !.at = stage]
    /\ saveLog' = Logged(saveLog, [ok |-> FALSE, data |-> <<>>])
    /\ movies' = load_collection(sv.pre).val
    /\ UNCHANGED op

\* `except IOError`: print and return False
ReturnFalse(stage) ==
    /\ pc' = "idle"
    /\ ret' = "false"
    /\ sv' = [sv EXCEPT !.fail = "IOError", !.at = stage]
    /\ saveLog' = Logged(saveLog, [ok |-> FALSE, data |-> <<>>])
    /\ UNCHANGED <<movies, op>>

\* KeyboardInterrupt is no IOError: it leaves save_collection and run(),
\* main() prints and the process ends
Interrupted(stage) ==
    /\ pc' = "exited"
    /\ ret' = "raised"
    /\ sv' = [sv EXCEPT !.fail = "KeyboardInterrupt", !.at = stage]
    /\ saveLog' = Logged(saveLog, [ok |-> FALSE, data |-> <<>>])
    /\ UNCHANGED <<movies, op>>

\* mutant: an existing backup is kept, the storage file is only removed
save_backup_keeps_old ==
    /\ pc = "backup"
    /\ IF file.exists /\ ~bak.exists
       THEN bak' = file /\ file' = Absent
       ELSE file' = Absent /\ UNCHANGED bak
    /\ pc' = "open"
    /\ UNCHANGED <<movies, ret, op, sv, saveLog>>

\* mutant: no backup is taken
save_backup_skipped ==
    /\ pc = "backup"
    /\ pc' = "open"
    /\ UNCHANGED <<movies, file, bak, ret, op, sv, saveLog>>

\* lines 82-84: the storage file, if any, is renamed to the backup path
save_backup ==
    /\ pc = "backup"
    /\ IF file.exists
       THEN bak' = file /\ file' = Absent
       ELSE UNCHANGED <<file, bak>>
    /\ pc' = "open"
    /\ UNCHANGED <<movies, ret, op, sv, saveLog>>

\* line 84 raises IOError: nothing was renamed
save_backup_fails ==
    /\ pc = "backup"
    /\ file.exists
    /\ ReturnFalse("backup")
    /\ UNCHANGED <<file, bak>>

\* line 86: open(..., 'w') creates the file, empty
save_open ==
    /\ pc = "open"
    /\ file' = FileOf(<<>>)
    /\ pc' = "write"
    /\ UNCHANGED <<movies, bak, ret, op, sv, saveLog>>

\* line 86 raises IOError
save_open_fails ==
    /\ pc = "open"
    /\ ReturnFalse("open")
    /\ UNCHANGED <<file, bak>>

\* lines 87-88: the whole text is written, the file closed, True returned
save_write ==
    /\ pc = "write"
    /\ file' = FileOf(SavedText(movies))
    /\ pc' = "idle"
    /\ ret' = "true"
    /\ saveLog' = Logged(saveLog, [ok |-> TRUE, data |-> SavedText(movies)])
    /\ UNCHANGED <<movies, bak, op, sv>>

\* line 87 raises IOError after part of the text reached the file
save_write_fails ==
    /\ pc = "write"
    /\ \E k \in CutPoints(SavedText(movies)) :
          file' = FileOf(SubSeq(SavedText(movies), 1, k))
    /\ ReturnFalse("write")
    /\ UNCHANGED bak

\* the user interrupts the process inside save_collection
save_interrupted ==
    /\ pc \in {"backup", "open", "write"}
    /\ IF pc = "write"
       THEN \E k \in CutPoints(SavedText(movies)) :
               file' = FileOf(SubSeq(SavedText(movies), 1, k))
       ELSE UNCHANGED file
    /\ Interrupted(pc)
    /\ UNCHANGED bak

----------------------------------------------------------------------------
(* The process: __init__, run and main, lines 29-37, 447-488, 529-539 *)

\* MovieCollection(): self.movies = self.load_collection().  An exception of
\* load_collection reaches main(), which prints it and returns.
Construct(f) ==
    LET r == load_collection(f) IN
    /\ movies' = r.val
    /\ pc' = IF r.raised = "none" THEN "idle" ELSE "exited"
    /\ ret' = "none"
    /\ op' = Op("load", r.raised, 0, <<>>, 0)
    /\ sv' = NoSaveCall

\* a new run of the program
start ==
    /\ pc = "exited"
    /\ Construct(file)
    /\ UNCHANGED <<file, bak, saveLog>>

\* open() or the read raises IOError: caught, an empty collection
start_read_fails ==
    /\ pc = "exited"
    /\ file.exists
    /\ movies' = <<>>
    /\ pc' = "idle"
    /\ ret' = "none"
    /\ op' = Op("load", "IOError", 0, <<>>, 0)
    /\ sv' = NoSaveCall
    /\ UNCHANGED <<file, bak, saveLog>>

\* menu choice 8
exit ==
    /\ pc = "idle"
    /\ pc' = "exited"
    /\ ret' = "none"
    /\ op' = Op("exit", "none", 0, <<>>, 0)
    /\ sv' = NoSaveCall
    /\ UNCHANGED <<movies, file, bak, saveLog>>

----------------------------------------------------------------------------
(* The operations on the collection *)

\* add_movie, lines 121-151.  The texts are what the user types at each
\* prompt; now is datetime.now() formatted.
add_movie(title_inputs, genre_in, year_inputs, rating_inputs, director_in, review_in, now) ==
    LET title == _get_validated_title(title_inputs, movies)
        year == _get_validated_year(year_inputs)
        rating == _get_validated_rating(rating_inputs)
        movie == PyDict(<<
            <<S_title, title.val>>,
            <<S_genre, PyStr(OrDefault(genre_in, S_Unknown))>>,
            <<S_year, year.val>>,
            <<S_rating, rating.val>>,
            <<S_director, PyStr(OrDefault(director_in, S_Unknown))>>,
            <<S_review, PyStr(strip(review_in))>>,
            <<S_added_date, PyStr(now)>> >>)
    IN  /\ pc = "idle"
        /\ title.st # "waiting"
        /\ IF title.st = "back"
           THEN /\ op' = Op("add_movie", "back", 0, <<>>, title.at)
                /\ NoSave(movies)
           ELSE /\ year.st = "value"
                /\ rating.st = "value"
                /\ Len(movies) < MaxMovies
                /\ op' = Op("add_movie", "added", Len(movies) + 1, <<>>, title.at)
                /\ CallSave(Append(movies, movie))

\* add_movie_directly, lines 500-511; movie_data is a dict
add_movie_directly(movie_data) ==
    /\ pc = "idle"
    /\ IF _validate_movie_data(movie_data) = "true"
       THEN /\ Len(movies) < MaxMovies
            /\ op' = Op("add_movie_directly", "added", Len(movies) + 1, <<>>, 0)
            /\ CallSave(Append(movies, movie_data))
       ELSE /\ op' = Op("add_movie_directly", "invalid", 0, <<>>, 0)
            /\ NoSave(movies)

\* the assignments of lines 393-417, in order, up to the first exception.
\* `upto` is how many of the six prompts were answered.
Edited(movie, inputs, upto) ==
    LET m1 == IF upto >= 1 /\ strip(inputs[1]) # <<>>
              THEN Put(movie, S_title, PyStr(strip(inputs[1]))) ELSE movie
        m2 == IF upto >= 2 /\ strip(inputs[2]) # <<>>
              THEN Put(m1, S_genre, PyStr(strip(inputs[2]))) ELSE m1
        m3 == IF upto >= 3 /\ isdigit(strip(inputs[3])) /\ int(inputs[3]).ok
              THEN Put(m2, S_year, PyInt(int(inputs[3]).n)) ELSE m2
        m4 == IF upto >= 4 /\ isdigit(strip(inputs[4])) /\ int(inputs[4]).ok
                 /\ MIN_RATING <= int(inputs[4]).n /\ int(inputs[4]).n <= MAX_RATING
              THEN Put(m3, S_rating, PyInt(int(inputs[4]).n)) ELSE m3
        m5 == IF upto >= 5 /\ strip(inputs[5]) # <<>>
              THEN Put(m4, S_director, PyStr(strip(inputs[5]))) ELSE m4
        m6 == IF upto >= 6 /\ strip(inputs[6]) # <<>>
              THEN Put(m5, S_review, PyStr(strip(inputs[6]))) ELSE m5
    IN  m6

\* int(new_year_str) at line 403 or int(new_rating_str) at line 407 raises
\* ValueError: the text passed isdigit() and is no decimal number
EditRaisesAt(inputs) ==
    IF isdigit(strip(inputs[3])) /\ ~int(inputs[3]).ok THEN 3
    ELSE IF isdigit(strip(inputs[4])) /\ ~int(inputs[4]).ok THEN 4
    ELSE 0

\* edit_movie, lines 376-424.  inputs: the six texts typed at the prompts.
edit_movie(choice_in, inputs) ==
    LET choice == int(choice_in)
        i == choice.n
        at == EditRaisesAt(inputs)
    IN  /\ pc = "idle"
        /\ IF movies = <<>>
           THEN op' = Op("edit_movie", "empty", 0, choice_in, 0) /\ NoSave(movies)
           ELSE IF ~choice.ok
           THEN op' = Op("edit_movie", "ValueError", 0, choice_in, 0)
                /\ NoSave(movies)
           ELSE IF i = 0
           THEN op' = Op("edit_movie", "cancel", 0, choice_in, 0) /\ NoSave(movies)
           ELSE IF 1 <= i /\ i <= Len(movies)
           THEN IF at # 0
                THEN /\ op' = Op("edit_movie", "ValueError", i, choice_in, 0)
                     /\ NoSave([movies EXCEPT ![i] = Edited(movies[i], inputs, at - 1)])
                ELSE /\ op' = Op("edit_movie", "edited", i, choice_in, 0)
                     /\ CallSave([movies EXCEPT ![i] = Edited(movies[i], inputs, 6)])
           ELSE op' = Op("edit_movie", "invalid", i, choice_in, 0) /\ NoSave(movies)

\* mutant: list.pop(i), one position too far
PopOffByOne(ms, i) ==
    IF i < Len(ms) THEN SubSeq(ms, 1, i) \o SubSeq(ms, i + 2, Len(ms))
    ELSE SubSeq(ms, 1, Len(ms) - 1)

\* list.pop(i - 1), with i counted from 1
Pop(ms, i) == SubSeq(ms, 1, i - 1) \o SubSeq(ms, i + 1, Len(ms))

\* delete_movie, lines 426-445
delete_movie(choice_in) ==
    LET choice == int(choice_in)
        i == choice.n
    IN  /\ pc = "idle"
        /\ IF movies = <<>>
           THEN op' = Op("delete_movie", "empty", 0, choice_in, 0) /\ NoSave(movies)
           ELSE IF ~choice.ok
           THEN op' = Op("delete_movie", "ValueError", 0, choice_in, 0)
                /\ NoSave(movies)
           ELSE IF i = 0
           THEN op' = Op("delete_movie", "cancel", 0, choice_in, 0) /\ NoSave(movies)
           ELSE IF 1 <= i /\ i <= Len(movies)
           THEN /\ op' = Op("delete_movie", "deleted", i, choice_in, 0)
                /\ CallSave(Pop(movies, i))
           ELSE op' = Op("delete_movie", "invalid", i, choice_in, 0) /\ NoSave(movies)

\* sort_movies, lines 263-297
sort_movies(choice_in) ==
    LET choice == strip(choice_in) IN
    /\ pc = "idle"
    /\ IF movies = <<>>
       THEN op' = Op("sort_movies", "empty", 0, choice, 0) /\ NoSave(movies)
       ELSE IF IsSortChoice(choice)
       THEN /\ op' = Op("sort_movies", "sorted", 0, choice, 0)
            /\ CallSave(sort(movies, sort_options(choice).key,
                             sort_options(choice).reverse))
       ELSE op' = Op("sort_movies", "invalid", 0, choice, 0)
            /\ NoSave(movies)

\* clear_collection, lines 491-494
clear_collection ==
    /\ pc = "idle"
    /\ op' = Op("clear_collection", "cleared", 0, <<>>, 0)
    /\ CallSave(<<>>)

----------------------------------------------------------------------------
(* The state after construction, for a storage file drawn from a set *)

InitWith(files) ==
    \E f \in files :
        LET r == load_collection(f) IN
        /\ file = f
        /\ bak = Absent
        /\ movies = r.val
        /\ pc = (IF r.raised = "none" THEN "idle" ELSE "exited")
        /\ ret = "none"
        /\ op = Op("load", r.raised, 0, <<>>, 0)
        /\ sv = NoSaveCall
        /\ saveLog = <<>>

----------------------------------------------------------------------------
(* Inputs *)

X_a == <<97>>
X_A == <<65>>
X_b == <<98>>
X_now == <<50, 48, 50, 54, 45, 49, 49, 45, 48, 51, 32, 49, 48, 58, 48, 48, 58, 48, 48>>
X_1999 == <<49, 57, 57, 57>>
X_5 == <<53>>

\* a record with the seven fields
Movie(title, genre, year, rating) ==
    PyDict(<< <<S_title, PyStr(title)>>, <<S_genre, PyStr(genre)>>,
              <<S_year, PyInt(year)>>, <<S_rating, PyInt(rating)>>,
              <<S_director, PyStr(S_Unknown)>>, <<S_review, PyStr(<<>>)>>,
              <<S_added_date, PyStr(X_now)>> >>)

\* a record without the field k
Without(d, k) == PyDict(SelectSeq(d.kv, LAMBDA p : p[1] # k))

\* the texts typed for a movie number: "0" "1" "2" "3" "4" "-1" "x" "" " 1"
Choices == {<<48>>, <<49>>, <<50>>, <<51>>, <<52>>, <<45, 49>>, <<120>>, <<>>,
            <<32, 49>>}

NoEdit == <<<<>>, <<>>, <<>>, <<>>, <<>>, <<>>>>

StoreTitleTries == {<<X_a>>, <<S_back>>}
StoreRecords == {Movie(X_b, S_Unknown, 1999, 5),
                 Without(Movie(X_b, S_Unknown, 1999, 5), S_review)}
StoreChoices == {<<49>>, <<51>>}
\* a new title; a new title and a year that isdigit() takes and int() refuses
StoreEdits == {[NoEdit EXCEPT ![1] = X_b], [NoEdit EXCEPT ![1] = X_b, ![3] = <<178>>]}
StoreSorts == {<<50>>}
StoreFiles == {Absent, FileOf(SavedText(<<Movie(X_a, S_Unknown, 1999, 5)>>))}

Init == InitWith(StoreFiles)

AddMovie ==
    \E tries \in StoreTitleTries :
        add_movie(tries, <<>>, <<X_1999>>, <<X_5>>, <<>>, <<>>, X_now)
AddMovieDirectly == \E r \in StoreRecords : add_movie_directly(r)
EditMovie == \E c \in StoreChoices, e \in StoreEdits : edit_movie(c, e)
DeleteMovie == \E c \in StoreChoices : delete_movie(c)
SortMovies == \E c \in StoreSorts : sort_movies(c)

Next ==
    \/ AddMovie
    \/ AddMovieDirectly
    \/ EditMovie
    \/ DeleteMovie
    \/ SortMovies
    \/ clear_collection
    \/ save_backup
    \/ save_open
    \/ save_write
    \/ save_backup_fails
    \/ save_open_fails
    \/ save_write_fails
    \/ save_interrupted
    \/ exit
    \/ start
    \/ start_read_fails

Spec == Init /\ [][Next]_vars

----------------------------------------------------------------------------
(* Claims checked under Spec *)

Mutating == {"added", "edited", "deleted", "sorted", "cleared"}

\* C1: once a mutating operation (add_movie, add_movie_directly, edit_movie,
\* delete_movie, sort_movies, clear_collection) has completed and its save
\* did not fail, the storage file holds exactly the serialization of
\* self.movies, in the same order.
C1_DiskEqualsMemory ==
    (pc = "idle" /\ op.outcome \in Mutating /\ ret # "false")
        => ret = "true" /\ file = FileOf(dumps(PyList(movies)))

C1_Witness ==
    /\ pc = "idle" /\ ret = "true" /\ op.outcome = "edited"
    /\ Len(movies) = 2 /\ bak.exists
    /\ file = FileOf(dumps(PyList(movies)))

\* C2: after two successive successful calls of save_collection the backup
\* file holds the text the first call wrote and the storage file the text
\* the second call wrote.
C2_BackupRotation ==
    (pc = "idle" /\ ret = "true" /\ Len(saveLog) = 2
        /\ saveLog[1].ok /\ saveLog[2].ok)
        => bak = FileOf(saveLog[1].data) /\ file = FileOf(saveLog[2].data)

C2_Witness ==
    /\ pc = "idle" /\ ret = "true" /\ Len(saveLog) = 2
    /\ saveLog[1].ok /\ saveLog[2].ok
    /\ saveLog[1].data # saveLog[2].data
    /\ bak = FileOf(saveLog[1].data)

\* C6: when save_collection meets an I/O error (at the rename or at the
\* write) it returns False, the process goes on, and self.movies is what it
\* was when save_collection was called; a save that meets no error returns
\* True.
C6_SaveFailure ==
    /\ sv.fail = "IOError" => ret = "false" /\ pc = "idle" /\ movies = sv.m0
    /\ (sv.called /\ pc = "idle" /\ sv.fail = "none") => ret = "true"

C6_Witness ==
    /\ sv.fail = "IOError" /\ sv.at = "write" /\ ret = "false"
    /\ movies = sv.m0
    /\ movies # load_collection(sv.pre).val

\* C10: when a storage file exists as save_collection starts, its content
\* is at every later step of the save in the storage file or in the backup
\* file, and from the rename on (also after a failed or interrupted open or
\* write) it is in the backup file.
C10_RollbackProtection ==
    (sv.called /\ sv.pre.exists)
        => /\ file = sv.pre \/ bak = sv.pre
           /\ (pc \in {"open", "write"} \/ sv.at \in {"open", "write"})
                => bak = sv.pre

C10_Witness ==
    /\ sv.called /\ sv.pre.exists /\ sv.pre.data # <<>>
    /\ sv.fail = "KeyboardInterrupt" /\ sv.at = "write"
    /\ file # sv.pre /\ file.data # <<>>
    /\ bak = sv.pre

----------------------------------------------------------------------------
(* SpecLoad: the program started on storage files of any content, reloaded,
   and saved again *)

RECURSIVE SeqsUpTo(_, _)
\* the sequences over S of length at most n
SeqsUpTo(S, n) ==
    IF n = 0 THEN {<<>>}
    ELSE LET shorter == SeqsUpTo(S, n - 1) IN
         shorter \cup {Append(q, x) : q \in shorter, x \in S}

LoadRecords ==
    {Movie(X_a, S_Unknown, 1999, 5),
     Put(Movie(X_b, S_Unknown, 1999, 5), S_review, PyNone),
     Put(Movie(X_A, S_Unknown, 1888, 10), <<120>>, PyInt(0)),
     Without(Movie(X_a, S_Unknown, 1999, 5), S_title),
     Without(Movie(X_b, S_Unknown, 1999, 5), S_added_date)}

LoadItems == LoadRecords \cup {PyInt(1), PyStr(X_a)}

LoadFiles ==
    {FileOf(dumps(PyList(items))) : items \in SeqsUpTo(LoadItems, MaxItems)}
    \cup {Absent,
          FileOf(<<>>),
          FileOf(dumps(PyInt(5))),
          FileOf(dumps(PyNone)),
          FileOf(dumps(PyStr(X_a))),
          FileOf(dumps(Movie(X_a, S_Unknown, 1999, 5))),
          FileOf(<<T("bad")>> \o dumps(PyList(<<>>))),
          FileOf(dumps(PyList(<<>>)) \o <<T("]")>>),
          FileOf(SubSeq(SavedText(<<Movie(X_a, S_Unknown, 1999, 5)>>), 1, 29))}

InitLoad == InitWith(LoadFiles)

EditLoad == edit_movie(<<49>>, NoEdit)

NextLoad ==
    \/ exit
    \/ start
    \/ start_read_fails
    \/ EditLoad
    \/ save_backup
    \/ save_open
    \/ save_write

SpecLoad == InitLoad /\ [][NextLoad]_vars

\* the file holds a JSON list whose elements are all objects
IsRecordList(f) ==
    /\ f.exists
    /\ ~Undecodable(f.data)
    /\ loads(f.data).ok
    /\ loads(f.data).val.t = "list"
    /\ \A i \in 1..Len(loads(f.data).val.items) :
          loads(f.data).val.items[i].t = "dict"

\* the record has each of the seven required fields
Complete(d) ==
    \A i \in 1..Len(REQUIRED_FIELDS) :
        \E j \in 1..Len(d.kv) : d.kv[j][1] = REQUIRED_FIELDS[i]

\* C3: after a successful save_collection of self.movies (records that all
\* have the seven required fields), load_collection on the same file
\* returns a sequence equal to self.movies, record for record, field for
\* field, in the same order.
C3_RoundTrip ==
    (pc = "idle" /\ ret = "true")
        => /\ \A i \in 1..Len(movies) : Complete(movies[i])
           /\ load_collection(file) = Returned(movies)

C3_Witness ==
    /\ pc = "idle" /\ ret = "true"
    /\ Len(movies) = 3
    /\ movies[1] # movies[2]
    /\ \E i \in 1..3 : Get(movies[i], S_review) = PyNone
    /\ \E i \in 1..3 : HasKey(movies[i], <<120>>)
    /\ load_collection(file) = Returned(movies)

\* C4: when the storage file holds a list of N records of which K lack a
\* required field, load_collection returns exactly the N-K records that
\* have all seven fields, unmodified and in their original relative order.
C4_LoadValidation ==
    (op.name = "load" /\ op.outcome # "IOError" /\ IsRecordList(file))
        => LET items == loads(file.data).val.items
               K == Cardinality({i \in 1..Len(items) : ~Complete(items[i])})
           IN  /\ op.outcome = "none"
               /\ pc = "idle"
               /\ Len(movies) = Len(items) - K
               /\ movies = SelectSeq(items, Complete)

C4_Witness ==
    /\ op.name = "load" /\ op.outcome = "none" /\ IsRecordList(file)
    /\ Len(loads(file.data).val.items) = 3
    /\ ~Complete(loads(file.data).val.items[2])
    /\ Len(movies) = 2
    /\ movies[1] # movies[2]

\* C5: load_collection never raises: an absent file gives an empty
\* collection, and so does every file that cannot be read or parsed as a
\* list of record objects (malformed JSON, undecodable bytes, a top-level
\* value that is no list, list elements that are no objects, I/O failure).
C5_LoadNeverRaises ==
    op.name = "load"
        => /\ op.outcome \in {"none", "IOError"}
           /\ pc = "idle"
           /\ (~IsRecordList(file) \/ op.outcome = "IOError") => movies = <<>>

----------------------------------------------------------------------------
(* SpecIndex: edit_movie and delete_movie with every kind of movie number *)

X_7 == <<55>>
X_sup2 == <<178>>

IndexRecords == {Movie(X_a, S_Unknown, 1999, 5)}
IndexEdits ==
    {[NoEdit EXCEPT ![1] = X_A, ![3] = X_sup2],
     <<X_b, X_b, X_1999, X_7, X_a, X_b>>}
IndexFiles == {Absent} \cup {FileOf(SavedText(<<r>>)) : r \in IndexRecords}

InitIndex == InitWith(IndexFiles)

AddIndex == \E r \in IndexRecords : add_movie_directly(r)
EditIndex == \E c \in Choices, e \in IndexEdits : edit_movie(c, e)
DeleteIndex == \E c \in Choices : delete_movie(c)

NextIndex ==
    \/ AddIndex
    \/ EditIndex
    \/ DeleteIndex
    \/ save_backup
    \/ save_open
    \/ save_write

SpecIndex == InitIndex /\ [][NextIndex]_vars

\* one step of edit_movie or delete_movie, by the number typed
IndexStep ==
    (pc = "idle" /\ op'.name \in {"edit_movie", "delete_movie"})
        => LET c == int(op'.arg)
               n == c.n
           IN  IF ~c.ok \/ n < 1 \/ n > Len(movies)
               THEN /\ movies' = movies /\ file' = file /\ bak' = bak
                    /\ pc' = "idle"
               ELSE IF op'.name = "delete_movie"
               THEN /\ pc' \in {"idle", "backup"}
                    /\ Len(movies') = Len(movies) - 1
                    /\ \A j \in 1..Len(movies') :
                          movies'[j] = IF j < n THEN movies[j] ELSE movies[j + 1]
               ELSE /\ pc' \in {"idle", "backup"}
                    /\ Len(movies') = Len(movies)
                    /\ \A j \in 1..Len(movies) : j # n => movies'[j] = movies[j]

\* C7: edit_movie and delete_movie with a movie number that is no number or
\* is outside 1..len(self.movies) leave self.movies, the storage file and
\* the backup file unchanged and do not raise; a number n in 1..len removes
\* or edits the record at position n and leaves the other records and their
\* order unchanged.
C7_InvalidIndex == [][IndexStep]_vars

C7_Witness ==
    /\ pc = "idle"
    /\ op.name = "delete_movie" /\ op.outcome = "invalid"
    /\ int(op.arg).ok /\ int(op.arg).n > Len(movies)
    /\ Len(movies) = 2
    /\ file = FileOf(dumps(PyList(movies)))

----------------------------------------------------------------------------
(* SpecAdd: add_movie, delete_movie and sort_movies from an empty collection *)

X_B == <<66>>
X_a_spaced == <<32, 97, 32>>
X_Back == <<66, 97, 99, 107>>
X_1887 == <<49, 56, 56, 55>>
X_2026 == <<50, 48, 50, 54>>
X_11 == <<49, 49>>
X_x == <<120>>

AddTitles == {<<>>, X_a, X_A, X_a_spaced, X_b, X_B, S_back, X_Back}
\* one text, or a text after an empty one or after "A"
AddTitleTries ==
    {<<t>> : t \in AddTitles} \cup {<<u, t>> : u \in {<<>>, X_A}, t \in AddTitles}
AddYearTries == {<<X_1887, X_1999>>, <<X_2026>>}
AddRatingTries == {<<X_11, X_x, X_5>>}
AddChoices == {<<49>>, <<50>>, <<51>>}
AddSorts == {<<49>>, <<50>>}

InitAdd == InitWith({Absent})

AddTitled ==
    \E t \in AddTitleTries, y \in AddYearTries, r \in AddRatingTries :
        add_movie(t, <<>>, y, r, <<>>, <<>>, X_now)
DeleteAdded == \E c \in AddChoices : delete_movie(c)
SortAdded == \E c \in AddSorts : sort_movies(c)

NextAdd ==
    \/ AddTitled
    \/ DeleteAdded
    \/ SortAdded
    \/ save_backup
    \/ save_open
    \/ save_write

SpecAdd == InitAdd /\ [][NextAdd]_vars

\* C8: add_movie appends no record whose title is empty or equals, ignoring
\* case, the title of a record already in self.movies; so after add_movie,
\* delete_movie and sort_movies from an empty collection the titles are
\* non-empty and pairwise distinct ignoring case.
C8_UniqueTitles ==
    /\ \A i \in 1..Len(movies) : Get(movies[i], S_title).s # <<>>
    /\ \A i, j \in 1..Len(movies) :
          i # j => lower(Get(movies[i], S_title).s) # lower(Get(movies[j], S_title).s)

C8_Witness ==
    /\ op.name = "add_movie" /\ op.outcome = "added" /\ op.tries = 2
    /\ Len(movies) = 2
    /\ Get(movies[1], S_title).s = X_a
    /\ Get(movies[2], S_title).s = X_B

----------------------------------------------------------------------------
(* SpecSort: sort_movies with every choice on collections with equal keys *)

X_y == <<121>>

SortRecords ==
    {Movie(X_a, X_x, 1999, 5), Movie(X_b, X_x, 1999, 7), Movie(X_a, X_y, 2001, 5)}
SortFiles ==
    {Absent} \cup {FileOf(SavedText(ms)) : ms \in SeqsUpTo(SortRecords, SortLen)}
\* "1" to "8", " 3" and ""
SortChoices == {<<c>> : c \in 49..56} \cup {<<32, 51>>, <<>>}

InitSort == InitWith(SortFiles)

SortAny == \E c \in SortChoices : sort_movies(c)

NextSort ==
    \/ SortAny
    \/ save_backup
    \/ save_open
    \/ save_write

SpecSort == InitSort /\ [][NextSort]_vars

\* the records of ms whose key is k, in their order
WithKey(ms, key, k) == SelectSeq(ms, LAMBDA m : Get(m, key) = k)

\* one step of sort_movies with a valid choice
SortStep ==
    (pc = "idle" /\ op'.name = "sort_movies" /\ op'.outcome = "sorted")
        => LET key == sort_options(op'.arg).key
               reverse == sort_options(op'.arg).reverse
               k(i) == Get(movies'[i], key)
           IN  /\ Len(movies') = Len(movies)
               /\ \A i, j \in 1..Len(movies') :
                     i < j => IF reverse THEN ~KeyLess(k(i), k(j))
                              ELSE ~KeyLess(k(j), k(i))
               /\ \A i \in 1..Len(movies) :
                     WithKey(movies', key, Get(movies[i], key))
                        = WithKey(movies, key, Get(movies[i], key))

\* what sort_movies saved is the new order
SortPersisted ==
    (pc = "idle" /\ op.outcome = "sorted" /\ ret # "false")
        => ret = "true" /\ file = FileOf(dumps(PyList(movies)))

\* C9: for every sort option the new self.movies is a permutation of the
\* old list, ordered by the chosen key in the chosen direction, records with
\* equal keys keep their relative order (also when descending), and the new
\* order is what is written to the file.
C9_SortStability == [][SortStep]_vars /\ []SortPersisted

C9_Witness ==
    /\ pc = "idle" /\ ret = "true"
    /\ op.outcome = "sorted" /\ op.arg = <<54>>
    /\ Len(movies) = 3
    /\ Get(movies[2], S_rating) = Get(movies[3], S_rating)
    /\ movies[2] # movies[3]
    /\ bak.exists /\ bak # file

----------------------------------------------------------------------------
(* SpecDomain: add_movie and edit_movie from an empty collection, with years
   and ratings inside and outside their domains *)

X_0 == <<48>>
X_1 == <<49>>
X_2 == <<50>>
X_1888 == <<49, 56, 56, 56>>
X_2027 == <<50, 48, 50, 55>>

DomainTitleTries == {<<X_a>>, <<X_b>>}
DomainYearTries == {<<X_1887, X_2027, X_1999>>, <<X_2026>>}
DomainRatingTries == {<<X_0, X_11, X_x, X_5>>}
DomainChoices == {X_1, X_2}
\* a year below, inside and above the domain; a rating below, inside and
\* above the domain
DomainEdits ==
    {[NoEdit EXCEPT ![3] = y] : y \in {X_1887, X_1888, X_2027}}
        \cup {[NoEdit EXCEPT ![4] = r] : r \in {X_0, X_7, X_11}}

InitDomain == InitWith({Absent})

AddDomain ==
    \E t \in DomainTitleTries, y \in DomainYearTries, r \in DomainRatingTries :
        add_movie(t, <<>>, y, r, <<>>, <<>>, X_now)
EditDomain == \E c \in DomainChoices, e \in DomainEdits : edit_movie(c, e)

NextDomain ==
    \/ AddDomain
    \/ EditDomain
    \/ save_backup
    \/ save_open
    \/ save_write

SpecDomain == InitDomain /\ [][NextDomain]_vars

InYearDomain(v) == v.t = "int" /\ FIRST_FILM_YEAR <= v.n /\ v.n <= current_year
InRatingDomain(v) == v.t = "int" /\ MIN_RATING <= v.n /\ v.n <= MAX_RATING

\* every record has its year and its rating in their domains
FieldDomains ==
    \A i \in 1..Len(movies) :
        /\ InYearDomain(Get(movies[i], S_year))
        /\ InRatingDomain(Get(movies[i], S_rating))

\* the text is a number outside the domain
OutOfYearDomain(text) == int(text).ok /\ ~InYearDomain(PyInt(int(text).n))
OutOfRatingDomain(text) == int(text).ok /\ ~InRatingDomain(PyInt(int(text).n))

\* one step of edit_movie on the record at position c with the texts e
EditKeepsField ==
    \A c \in DomainChoices, e \in DomainEdits :
        (edit_movie(c, e) /\ int(c).n <= Len(movies))
            => /\ OutOfYearDomain(e[3]) =>
                    Get(movies'[int(c).n], S_year) = Get(movies[int(c).n], S_year)
               /\ OutOfRatingDomain(e[4]) =>
                    Get(movies'[int(c).n], S_rating) = Get(movies[int(c).n], S_rating)

\* C11: in any sequence of add_movie and edit_movie from an empty collection
\* every record of self.movies has a rating in [1,10] and a year in
\* [1888, current_year], and an edit that supplies a year or a rating outside
\* its domain leaves that field at its previous value.
C11_FieldDomains == []FieldDomains /\ [][EditKeepsField]_vars

====
